---- MODULE Spec2Model ----
(***************************************************************************)
(* Order execution engine: the admission endpoint that enqueues orders     *)
(* (server), the BullMQ queue/worker pair it configures, and the order     *)
(* lifecycle run by OrderExecutor.processOrder.                            *)
(*                                                                         *)
(* A job is a record of the queue; its id is its index in `jobs` (BullMQ   *)
(* numbers jobs 1, 2, 3, ... when queue.add is given no jobId).            *)
(***************************************************************************)
EXTENDS Integers, Sequences, FiniteSets, TLC

\* ---------------------------------------------------------------- bounds
\* Number of jobs the admission endpoint may create in one behaviour.
MaxJobs == 3
\* Number of WebSocket connections clients may open in one behaviour.
MaxSockets == 2
\* Worker option `concurrency` (orderExecutor.ts:31 sets 10).  The pool is
\* modelled with this many slots so that a burst larger than the pool
\* (MaxJobs > Concurrency) stays within reach of exhaustive search.
Concurrency == 2

\* ------------------------------------------------------- program constants
\* queue.add option `attempts` (queueOrderForExecution).
attempts == 3
\* queue.add option `backoff.delay`, in ms (queueOrderForExecution).
delay == 2000

\* One clock step, in ms: the base backoff delay.
TimeStep == delay

\* Orders the clients submit (Order of types.ts).  `absent` names the
\* properties the request body does not carry (undefined in the handler).
Orders ==
  { [id |-> "o1", userId |-> "u1", pair |-> "SOL/USDC", side |-> "buy",
     amount |-> 100, absent |-> {}],
    [id |-> "o2", userId |-> "u2", pair |-> "SOL/USDC", side |-> "sell",
     amount |-> 50, absent |-> {}] }

\* The properties isValidOrder looks at.
Fields == {"id", "userId", "pair", "side", "amount"}

\* Request bodies sent to POST /api/orders/execute: the orders, an order with
\* one property left out, and orders whose amount is zero or negative.
Bodies ==
  Orders
    \cup { [id |-> "o1", userId |-> "u1", pair |-> "SOL/USDC", side |-> "buy",
            amount |-> 100, absent |-> {f}] : f \in Fields }
    \cup { [id |-> "o1", userId |-> "u1", pair |-> "SOL/USDC", side |-> "buy",
            amount |-> a, absent |-> {}] : a \in {0, -5} }

OrderIds == { o.id : o \in Orders }

\* Prices a venue may quote in one getQuotes call.
Prices == {149, 150}

\* Status flow of processOrder, in emission order.
Lifecycle == <<"pending", "routing", "building", "submitted", "confirmed">>

NoQuote == [dex |-> "none", price |-> 0, fee |-> 0]

VARIABLES
  jobs,   \* the queue's jobs, by job id (1..Len(jobs))
  wait,   \* BullMQ wait list: ids of waiting jobs, oldest first
  reply,  \* the last request to POST /api/orders/execute and its response
  server, \* which server runs: src/index.ts ("production") or the server the
          \* WebSocket tests build around the same queue and router ("harness")
  sockets,                     \* the WebSocket connections ever accepted
  activeWebSocketConnections,  \* production registry: a Set of sockets
  orderConnections,            \* harness registry: a Map order id -> socket
  routed                       \* the last call of a quote function and its result

ws == <<sockets, activeWebSocketConnections, orderConnections>>

vars == <<jobs, wait, reply, server, sockets, activeWebSocketConnections,
          orderConnections, routed>>

SocketIds == 1..Len(sockets)

JobIds == 1..Len(jobs)

\* Jobs carrying the order id.
JobsOf(id) == { j \in JobIds : jobs[j].order.id = id }

\* ----------------------------------------------------------------- helpers
RECURSIVE Pow2(_)
Pow2(n) == IF n <= 0 THEN 1 ELSE 2 * Pow2(n - 1)

IsPrefix(s, t) == Len(s) <= Len(t) /\ \A i \in 1..Len(s) : s[i] = t[i]

ActiveJobs_HoldsFailed ==
  { j \in JobIds : jobs[j].state \in {"active", "delayed", "failed"} }

ActiveJobs == { j \in JobIds : jobs[j].state = "active" }

ActiveCount == Cardinality(ActiveJobs)

\* Worker concurrency check: a job is fetched only while a slot is free.
HasFreeSlot_OffByOne == ActiveCount <= Concurrency
HasFreeSlot_Leak ==
  Cardinality({ j \in JobIds : jobs[j].attemptsStarted > 0 }) < Concurrency
HasFreeSlot == ActiveCount < Concurrency

\* BullMQ exponential backoff: delay * 2^(attemptsMade - 1).
BackoffDelay_Fixed(attemptsMade) == delay
BackoffDelay(attemptsMade) == delay * Pow2(attemptsMade - 1)

\* BullMQ retry decision after a failed attempt, attemptsMade counting it.
ShouldRetry_OffByOne(attemptsMade) == attemptsMade <= attempts
ShouldRetry(attemptsMade) == attemptsMade < attempts

\* A delayed job is due once its backoff delay has elapsed.
IsDue(job) == job.waited >= job.backoff

\* OrderExecutor.selectBestQuote: reduce over the quotes, first quote as the
\* initial accumulator, strict comparison.
RECURSIVE ReduceBest(_, _, _, _)
ReduceBest(quotes, orderSide, best, i) ==
  IF i > Len(quotes) THEN best
  ELSE LET cur == quotes[i]
           nxt == IF orderSide = "buy"
                  THEN (IF cur.price < best.price THEN cur ELSE best)
                  ELSE (IF cur.price > best.price THEN cur ELSE best)
       IN ReduceBest(quotes, orderSide, nxt, i + 1)

selectBestQuote_First(quotes, orderSide) == quotes[1]

selectBestQuote(quotes, orderSide) == ReduceBest(quotes, orderSide, quotes[1], 2)

\* --------------------------------------------------------------- MockRouter
\* Fees in thousandths (RAYDIUM_FEE = 0.003, METEORA_FEE = 0.002).
RAYDIUM_FEE == 3
METEORA_FEE == 2

\* Token references passed to getQuote, as sequences of characters.
Tokens == { <<>>, <<" ", " ">>, <<"S", "O", "L">>, <<" ", "S", " ">> }

\* Amounts passed to getQuote.
Amounts == {-100, 0, 100}

\* The optional slippagePercent argument: <<>> when omitted, <<p>> when given.
Slippages == { <<>>, <<1>>, <<2>> }

\* String.prototype.trim: drop leading and trailing white space.
RECURSIVE TrimStart(_)
TrimStart(str) ==
  IF str # <<>> /\ Head(str) = " " THEN TrimStart(Tail(str)) ELSE str

RECURSIVE TrimEnd(_)
TrimEnd(str) ==
  IF str # <<>> /\ str[Len(str)] = " "
  THEN TrimEnd(SubSeq(str, 1, Len(str) - 1))
  ELSE str

Trim(str) == TrimEnd(TrimStart(str))

\* MockRouter.validateInputs: the message of the Error it throws, "" when it
\* returns.
validateInputs_NoTrim(tokenAddress, amount) ==
  IF tokenAddress = <<>>
  THEN "Invalid token address: Token address cannot be empty"
  ELSE IF amount <= 0
  THEN "Invalid amount: Amount must be greater than zero"
  ELSE ""

validateInputs(tokenAddress, amount) ==
  IF tokenAddress = <<>> \/ Trim(tokenAddress) = <<>>
  THEN "Invalid token address: Token address cannot be empty"
  ELSE IF amount <= 0
  THEN "Invalid amount: Amount must be greater than zero"
  ELSE ""

\* MockRouter.calculateMinAmountOut, in hundredths:
\* amount * price * (1 - slippagePercent / 100).
calculateMinAmountOut_NoSlippage(amount, price, slippagePercent) ==
  (amount * price) * 100

calculateMinAmountOut(amount, price, slippagePercent) ==
  (amount * price) * (100 - slippagePercent)

\* getQuote: isRaydiumBetter = raydiumPrice <= meteoraPrice.
isRaydiumBetter_Strict(raydiumPrice, meteoraPrice) == raydiumPrice < meteoraPrice

isRaydiumBetter(raydiumPrice, meteoraPrice) == raydiumPrice <= meteoraPrice

\* The default parameter value slippagePercent = 1.
slippagePercent(slippage) == IF slippage = <<>> THEN 1 ELSE slippage[1]

\* MockRouter.getQuote with the two prices calculatePriceWithVariance
\* returns: the rejection when validateInputs throws, the best quote
\* otherwise.
getQuote(tokenAddress, amount, slippage, raydiumPrice, meteoraPrice) ==
  IF validateInputs(tokenAddress, amount) # ""
  THEN [rejected |-> TRUE, error |-> validateInputs(tokenAddress, amount),
        dex |-> "none", price |-> 0, fee |-> 0, minAmountOut |-> 0]
  ELSE LET better == isRaydiumBetter(raydiumPrice, meteoraPrice)
           bestPrice == IF better THEN raydiumPrice ELSE meteoraPrice
       IN [rejected |-> FALSE, error |-> "",
           dex |-> IF better THEN "Raydium" ELSE "Meteora",
           price |-> bestPrice,
           fee |-> IF better THEN RAYDIUM_FEE ELSE METEORA_FEE,
           minAmountOut |-> calculateMinAmountOut(amount, bestPrice,
                                                  slippagePercent(slippage))]

\* No quote function has been called.
NoCall == [fn |-> "none"]

\* MockRouter.getQuotes: Raydium first, Meteora second.
getQuotes_SwappedFees(pR, pM) ==
  << [dex |-> "Raydium", price |-> pR, fee |-> METEORA_FEE],
     [dex |-> "Meteora", price |-> pM, fee |-> RAYDIUM_FEE] >>

getQuotes(pR, pM) ==
  << [dex |-> "Raydium", price |-> pR, fee |-> RAYDIUM_FEE],
     [dex |-> "Meteora", price |-> pM, fee |-> METEORA_FEE] >>

\* Base price, and the venues' variances in per cent (0.04 and 0.05).
BASE_PRICE == 150
RAYDIUM_VARIANCE == 4
METEORA_VARIANCE == 5

\* Values of Math.random(), in thousandths.  Math.random() stays below 1; the
\* router's tests make it return 1 as the upper end of the range, and the
\* largest double below 1 yields the same prices as 1.
Draws == {0, 250, 500, 750, 1000}

\* Trading pairs passed to getQuotes.
Pairs == {"SOL/USDC", ""}

\* calculatePriceWithVariance, in hundredths of the price unit:
\* basePrice + basePrice * (Math.random() * variance * 2 - variance), with the
\* draw r in thousandths and the variance in per cent.
calculatePriceWithVariance_NoCentre(basePrice, variance, r) ==
  basePrice * 100 + (basePrice * (r * variance * 2)) \div 1000

calculatePriceWithVariance(basePrice, variance, r) ==
  basePrice * 100 + (basePrice * (r * variance * 2 - 1000 * variance)) \div 1000

\* statusUpdateCallback(order.id, status): the status joins the statuses
\* emitted by the job's current pass; pending and failed are also counted
\* over all passes of the job.
Emit_Prepend(job, status) ==
  [job EXCEPT !.emitted = <<status>> \o @,
              !.pendingEmitted = @ + (IF status = "pending" THEN 1 ELSE 0),
              !.failedEmitted = @ + (IF status = "failed" THEN 1 ELSE 0)]

Emit(job, status) ==
  [job EXCEPT !.emitted = Append(@, status),
              !.pendingEmitted = @ + (IF status = "pending" THEN 1 ELSE 0),
              !.failedEmitted = @ + (IF status = "failed" THEN 1 ELSE 0)]

\* OrderExecutor.handleJobFailure, the worker's 'failed' listener: the job is
\* defined, so failed is emitted once for the attempt.
handleJobFailure_Twice(job) == Emit(Emit(job, "failed"), "failed")
handleJobFailure_OnlyFinal(job) ==
  IF job.state = "failed" THEN Emit(job, "failed") ELSE job
handleJobFailure(job) == Emit(job, "failed")

\* The details argument of statusUpdateCallback: {error} with failed,
\* {selectedDex, price} with building, {dex, price, txHash} with confirmed
\* (the random txHash is left out), nothing otherwise.
NoDetails == [error |-> "", dex |-> "", price |-> 0]

ErrorDetails_Generic(error) == [error |-> "Job failed", dex |-> "", price |-> 0]

ErrorDetails(error) == [error |-> error, dex |-> "", price |-> 0]

QuoteDetails(quote) == [error |-> "", dex |-> quote.dex, price |-> quote.price]

Event(status, details) == [status |-> status, details |-> details]

\* The job data as the queue stores it (JSON.stringify: the properties that
\* are present) and as the worker reads it back (JSON.parse).
JSONstringify(order) == [f \in Fields \ order.absent |-> order[f]]

JSONparse_DropUserId(text) ==
  [id     |-> IF "id" \in DOMAIN text THEN text["id"] ELSE "",
   userId |-> "",
   pair   |-> IF "pair" \in DOMAIN text THEN text["pair"] ELSE "",
   side   |-> IF "side" \in DOMAIN text THEN text["side"] ELSE "",
   amount |-> IF "amount" \in DOMAIN text THEN text["amount"] ELSE 0,
   absent |-> (Fields \ DOMAIN text) \cup {"userId"}]

JSONparse(text) ==
  [id     |-> IF "id" \in DOMAIN text THEN text["id"] ELSE "",
   userId |-> IF "userId" \in DOMAIN text THEN text["userId"] ELSE "",
   pair   |-> IF "pair" \in DOMAIN text THEN text["pair"] ELSE "",
   side   |-> IF "side" \in DOMAIN text THEN text["side"] ELSE "",
   amount |-> IF "amount" \in DOMAIN text THEN text["amount"] ELSE 0,
   absent |-> Fields \ DOMAIN text]

\* OrderExecutor.buildExecutionDetails: the executed quote's price and dex
\* (the random txHash is left out).
buildExecutionDetails_BasePrice(quote) ==
  [error |-> "", dex |-> quote.dex, price |-> 150]

buildExecutionDetails(quote) == QuoteDetails(quote)

\* An order no attempt has received yet.
NoOrder == JSONparse([f \in {} |-> 0])

\* Job created by queue.add('execute-order', {order}, {attempts, backoff}).
NewJob_DefaultOpts(order) ==
  [ order           |-> order,
    opts            |-> [attempts |-> 1, backoff |-> [type |-> "none", delay |-> 0]],
    state           |-> "waiting",
    pc              |-> "idle",
    attemptsStarted |-> 0,
    attemptsMade    |-> 0,
    emitted         |-> <<>>,
    pendingEmitted  |-> 0,
    failedEmitted   |-> 0,
    failedReason    |-> "",
    received        |-> NoOrder,
    quotes          |-> <<>>,
    best            |-> NoQuote,
    backoff         |-> 0,
    waited          |-> 0 ]

NewJob(order) ==
  [ order           |-> order,
    opts            |-> [attempts |-> attempts,
                         backoff |-> [type |-> "exponential", delay |-> delay]],
    state           |-> "waiting",
    pc              |-> "idle",
    attemptsStarted |-> 0,
    attemptsMade    |-> 0,
    emitted         |-> <<>>,
    pendingEmitted  |-> 0,
    failedEmitted   |-> 0,
    failedReason    |-> "",
    received        |-> NoOrder,
    quotes          |-> <<>>,
    best            |-> NoQuote,
    backoff         |-> 0,
    waited          |-> 0 ]

\* An own property of the request body that is truthy in JavaScript.
Truthy(body, field) ==
  /\ field \notin body.absent
  /\ body[field] # (IF field = "amount" THEN 0 ELSE "")

\* isValidOrder: !!(order.id && order.userId && order.amount && order.pair &&
\* order.side).
isValidOrder(order) ==
  /\ Truthy(order, "id")
  /\ Truthy(order, "userId")
  /\ Truthy(order, "amount")
  /\ Truthy(order, "pair")
  /\ Truthy(order, "side")

\* Responses of POST /api/orders/execute.
NoReply ==
  [request |-> [id |-> "", userId |-> "", pair |-> "", side |-> "",
                amount |-> 0, absent |-> Fields],
   code |-> 0, status |-> "", error |-> "", orderId |-> ""]

Accepted(order) ==
  [request |-> order, code |-> 202, status |-> "queued", error |-> "",
   orderId |-> order.id]

Invalid(order) ==
  [request |-> order, code |-> 400, status |-> "",
   error |-> "Invalid order data. Missing required fields.", orderId |-> ""]

QueueError(order) ==
  [request |-> order, code |-> 500, status |-> "",
   error |-> "Failed to queue order", orderId |-> ""]

\* new Map().
EmptyMap == [k \in {} |-> 0]

\* -------------------------------------------------------------------- Init
Init ==
  /\ jobs = <<>>
  /\ wait = <<>>
  /\ reply = NoReply
  /\ server = "production"
  /\ sockets = <<>>
  /\ activeWebSocketConnections = {}
  /\ orderConnections = EmptyMap
  /\ routed = NoCall

\* ----------------------------------------------------------------- actions
\* POST /api/orders/execute with a valid order: queueOrderForExecution adds
\* a job (no jobId option, so every call creates a new job) and the order is
\* acknowledged.
Submit_CollapseAny(order) ==
  /\ isValidOrder(order)
  /\ Len(jobs) < MaxJobs
  /\ jobs' = IF jobs = <<>> THEN Append(jobs, NewJob(order)) ELSE jobs
  /\ wait' = IF jobs = <<>> THEN Append(wait, Len(jobs) + 1) ELSE wait
  /\ reply' = Accepted(order)
  /\ UNCHANGED <<server, routed, ws>>

Submit(order) ==
  /\ isValidOrder(order)
  /\ Len(jobs) < MaxJobs
  /\ jobs' = Append(jobs, NewJob(order))
  /\ wait' = Append(wait, Len(jobs) + 1)
  /\ reply' = Accepted(order)
  /\ UNCHANGED <<server, routed, ws>>

\* POST /api/orders/execute with a body isValidOrder refuses: 400, nothing is
\* queued.
RejectInvalid(order) ==
  /\ ~isValidOrder(order)
  /\ reply' = Invalid(order)
  /\ UNCHANGED <<jobs, wait, server, routed, ws>>

\* POST /api/orders/execute with a valid order while orderQueue.add rejects
\* (queue unavailable): the catch block answers 500, nothing is queued.
QueueFails_Acknowledged(order) ==
  /\ isValidOrder(order)
  /\ reply' = Accepted(order)
  /\ UNCHANGED <<jobs, wait, server, routed, ws>>

QueueFails(order) ==
  /\ isValidOrder(order)
  /\ reply' = QueueError(order)
  /\ UNCHANGED <<jobs, wait, server, routed, ws>>

\* ------------------------------------------------------------- WebSockets
\* Messages a server writes to a socket.
StatusMessageWith(orderId, status, details) ==
  [type |-> "status", orderId |-> orderId, status |-> status,
   details |-> details]

StatusMessage(orderId, status) == StatusMessageWith(orderId, status, NoDetails)

ConnectedMessage(orderId) ==
  [type |-> "connected", orderId |-> orderId, status |-> "",
   details |-> NoDetails]

ErrorMessage ==
  [type |-> "error", orderId |-> "", status |-> "Missing orderId parameter",
   details |-> NoDetails]

\* A connection as the server sees it: the orderId query parameter ("" when
\* the URL carries none), its readyState, whether its send throws, whether a
\* 'close' listener is registered and has not run yet, and what the client
\* has received.
NewSocket(orderId, sendThrows) ==
  [orderId |-> orderId, readyState |-> "OPEN", sendThrows |-> sendThrows,
   onClose |-> FALSE, inbox |-> <<>>]

\* socket.send(message): the message reaches the client unless send throws.
Send_Twice(socket, message) ==
  IF socket.sendThrows
  THEN [socket |-> socket, threw |-> TRUE]
  ELSE [socket |-> [socket EXCEPT !.inbox = Append(Append(@, message), message)],
        threw |-> FALSE]

Send(socket, message) ==
  IF socket.sendThrows
  THEN [socket |-> socket, threw |-> TRUE]
  ELSE [socket |-> [socket EXCEPT !.inbox = Append(@, message)], threw |-> FALSE]

\* sendMessageToClient: send only to an OPEN socket, inside try/catch.
sendMessageToClient_NoCatch(socket, message) ==
  IF socket.readyState = "OPEN"
  THEN [socket |-> Send(socket, message).socket,
        raised |-> Send(socket, message).threw]
  ELSE [socket |-> socket, raised |-> FALSE]

sendMessageToClient(socket, message) ==
  IF socket.readyState = "OPEN"
  THEN [socket |-> Send(socket, message).socket, raised |-> FALSE]
  ELSE [socket |-> socket, raised |-> FALSE]

\* Production broadcastOrderStatus: the for..of loop over the Set, in
\* insertion order, from socket c on.
RECURSIVE BroadcastAll(_, _, _, _)
BroadcastAll(ss, connections, message, c) ==
  IF c > Len(ss) THEN [sockets |-> ss, raised |-> FALSE]
  ELSE IF c \notin connections THEN BroadcastAll(ss, connections, message, c + 1)
  ELSE LET r == sendMessageToClient(ss[c], message) IN
         IF r.raised
         THEN [sockets |-> [ss EXCEPT ![c] = r.socket], raised |-> TRUE]
         ELSE BroadcastAll([ss EXCEPT ![c] = r.socket], connections, message, c + 1)

\* Harness broadcastOrderStatus: orderConnections.get(orderId), send if the
\* connection exists and is OPEN (no try/catch).
BroadcastKeyed(ss, connections, orderId, message) ==
  IF orderId \in DOMAIN connections
  THEN LET c == connections[orderId] IN
         IF ss[c].readyState = "OPEN"
         THEN [sockets |-> [ss EXCEPT ![c] = Send(ss[c], message).socket],
               raised |-> Send(ss[c], message).threw]
         ELSE [sockets |-> ss, raised |-> FALSE]
  ELSE [sockets |-> ss, raised |-> FALSE]

\* The statusUpdateCallback of the running server.
broadcastOrderStatus_OwnOrder(ss, orderId, status, details) ==
  IF server = "production"
  THEN BroadcastAll(ss, { c \in activeWebSocketConnections : ss[c].orderId = orderId },
                    StatusMessageWith(orderId, status, details), 1)
  ELSE BroadcastKeyed(ss, orderConnections, orderId,
                      StatusMessageWith(orderId, status, details))

broadcastOrderStatus(ss, orderId, status, details) ==
  IF server = "production"
  THEN BroadcastAll(ss, activeWebSocketConnections,
                    StatusMessageWith(orderId, status, details), 1)
  ELSE BroadcastKeyed(ss, orderConnections, orderId,
                      StatusMessageWith(orderId, status, details))

\* Map.set(key, value): the new value replaces the one stored under the key.
MapSet_KeepFirst(map, key, value) ==
  [k \in DOMAIN map \cup {key} |-> IF k \in DOMAIN map THEN map[k] ELSE value]

MapSet(map, key, value) ==
  [k \in DOMAIN map \cup {key} |-> IF k = key THEN value ELSE map[k]]

\* Map.delete(key).
MapDelete(map, key) == [k \in DOMAIN map \ {key} |-> map[k]]

\* A client opens a WebSocket.  Production (handleWebSocketConnection): the
\* socket joins the Set and gets a 'close' listener; the query string is not
\* read.  Harness (/ws route): without orderId the socket is sent an error
\* and closed; otherwise it is stored under the order id, gets a 'close'
\* listener and is sent the Connected message.
Connect_RegisterAnyway(orderId, sendThrows) ==
  /\ Len(sockets) < MaxSockets
  /\ LET c == Len(sockets) + 1
         socket == NewSocket(orderId, sendThrows)
     IN IF server = "production"
        THEN /\ sockets' = Append(sockets, [socket EXCEPT !.onClose = TRUE])
             /\ activeWebSocketConnections' = activeWebSocketConnections \cup {c}
             /\ UNCHANGED orderConnections
        ELSE /\ sockets' = Append(sockets,
                    [Send(socket, ConnectedMessage(orderId)).socket
                       EXCEPT !.onClose = TRUE])
             /\ orderConnections' = MapSet(orderConnections, orderId, c)
             /\ UNCHANGED activeWebSocketConnections
  /\ UNCHANGED <<jobs, wait, reply, server, routed>>

Connect(orderId, sendThrows) ==
  /\ Len(sockets) < MaxSockets
  /\ LET c == Len(sockets) + 1
         socket == NewSocket(orderId, sendThrows)
     IN IF server = "production"
        THEN /\ sockets' = Append(sockets, [socket EXCEPT !.onClose = TRUE])
             /\ activeWebSocketConnections' = activeWebSocketConnections \cup {c}
             /\ UNCHANGED orderConnections
        ELSE IF orderId = ""
        THEN /\ sockets' = Append(sockets,
                    [Send(socket, ErrorMessage).socket
                       EXCEPT !.readyState = "CLOSED"])
             /\ UNCHANGED <<activeWebSocketConnections, orderConnections>>
        ELSE /\ sockets' = Append(sockets,
                    [Send(socket, ConnectedMessage(orderId)).socket
                       EXCEPT !.onClose = TRUE])
             /\ orderConnections' = MapSet(orderConnections, orderId, c)
             /\ UNCHANGED activeWebSocketConnections
  /\ UNCHANGED <<jobs, wait, reply, server, routed>>

\* The client closes its socket (or the connection drops).
SocketCloses_CancelsJob(c) ==
  /\ sockets[c].readyState = "OPEN"
  /\ sockets' = [sockets EXCEPT ![c].readyState = "CLOSED"]
  /\ jobs' = [j \in JobIds |->
                IF jobs[j].order.id = sockets[c].orderId /\ jobs[j].state = "active"
                THEN [jobs[j] EXCEPT !.state = "failed", !.pc = "idle"]
                ELSE jobs[j]]
  /\ UNCHANGED <<wait, reply, server, routed, activeWebSocketConnections,
                 orderConnections>>

SocketCloses(c) ==
  /\ sockets[c].readyState = "OPEN"
  /\ sockets' = [sockets EXCEPT ![c].readyState = "CLOSED"]
  /\ UNCHANGED <<jobs, wait, reply, server, routed, activeWebSocketConnections,
                 orderConnections>>

\* The socket's 'close' listener runs: production deletes the socket from the
\* Set, the harness deletes the entry stored under the socket's order id.
CloseHandler(c) ==
  /\ sockets[c].readyState = "CLOSED"
  /\ sockets[c].onClose
  /\ sockets' = [sockets EXCEPT ![c].onClose = FALSE]
  /\ IF server = "production"
     THEN /\ activeWebSocketConnections' = activeWebSocketConnections \ {c}
          /\ UNCHANGED orderConnections
     ELSE /\ orderConnections' = MapDelete(orderConnections, sockets[c].orderId)
          /\ UNCHANGED activeWebSocketConnections
  /\ UNCHANGED <<jobs, wait, reply, server, routed>>

\* ---------------------------------------------------------------- pipeline
\* The statusUpdateCallback is called for each event in turn; a call that
\* raises ends the run.
RECURSIVE EmitAll(_, _, _)
EmitAll(job, ss, events) ==
  IF events = <<>> THEN [job |-> job, sockets |-> ss, raised |-> FALSE]
  ELSE LET e == Head(events)
           r == broadcastOrderStatus(ss, job.order.id, e.status, e.details)
       IN IF r.raised
          THEN [job |-> Emit(job, e.status), sockets |-> r.sockets,
                raised |-> TRUE]
          ELSE EmitAll(Emit(job, e.status), r.sockets, Tail(events))

\* The queue records a failed attempt and its reason (the error's message):
\* retry with backoff while attempts remain, failed otherwise.
moveToFailed_Requeue(job, error) ==
  LET made == job.attemptsMade + 1 IN
    [job EXCEPT !.state = IF ShouldRetry(made) THEN "waiting" ELSE "failed",
                !.pc = "idle",
                !.attemptsMade = made,
                !.failedReason = error,
                !.quotes = <<>>,
                !.best = NoQuote,
                !.backoff = IF ShouldRetry(made) THEN BackoffDelay(made) ELSE 0,
                !.waited = 0]

moveToFailed(job, error) ==
  LET made == job.attemptsMade + 1 IN
    [job EXCEPT !.state = IF ShouldRetry(made) THEN "delayed" ELSE "failed",
                !.pc = "idle",
                !.attemptsMade = made,
                !.failedReason = error,
                !.quotes = <<>>,
                !.best = NoQuote,
                !.backoff = IF ShouldRetry(made) THEN BackoffDelay(made) ELSE 0,
                !.waited = 0]

\* An exception with message `error` leaves the processor.  Production:
\* processOrder has no try/catch; the queue records the failure and the
\* worker's 'failed' event runs handleJobFailure, which emits failed with
\* {error: error.message} (an exception of the listener does not reach the
\* job).  Harness: inside the try block the catch emits failed and rethrows;
\* outside it nothing is emitted; no 'failed' listener.
Throw(job, ss, inTry, error) ==
  IF server = "production"
  THEN LET failed == handleJobFailure(moveToFailed(job, error)) IN
         [job |-> failed,
          sockets |-> IF failed.failedEmitted > job.failedEmitted
                      THEN broadcastOrderStatus(ss, job.order.id, "failed",
                                                ErrorDetails(error)).sockets
                      ELSE ss]
  ELSE IF inTry
  THEN [job |-> moveToFailed(Emit(job, "failed"), error),
        sockets |-> broadcastOrderStatus(ss, job.order.id, "failed",
                                         ErrorDetails(error)).sockets]
  ELSE [job |-> moveToFailed(job, error), sockets |-> ss]

\* The message of the exception a throwing socket.send raises.
SendError == "WebSocket is not open"

\* The processor runs job j from `start` to its next await, emitting the
\* events on the way and reaching `success`, unless a callback raises.
RunToAwait(j, start, events, success, inTry) ==
  LET r == EmitAll(start, sockets, events) IN
    IF r.raised
    THEN /\ jobs' = [jobs EXCEPT ![j] = Throw(r.job, r.sockets, inTry, SendError).job]
         /\ sockets' = Throw(r.job, r.sockets, inTry, SendError).sockets
    ELSE /\ jobs' = [jobs EXCEPT ![j] =
                       [success EXCEPT !.emitted = r.job.emitted,
                                       !.pendingEmitted = r.job.pendingEmitted,
                                       !.failedEmitted = r.job.failedEmitted]]
         /\ sockets' = r.sockets

\* The worker fetches the oldest waiting job when a slot is free and calls
\* the processor, which runs synchronously up to its first await.
\* Production (processOrder): emit pending and routing, await getQuotes.
\* Harness: emit pending, await a timer.
Claim_RoutingFirst ==
  /\ wait # <<>>
  /\ HasFreeSlot
  /\ LET j == Head(wait)
         start == [jobs[j] EXCEPT !.state = "active",
                                  !.pc = "pending",
                                  !.attemptsStarted = @ + 1,
                                  !.received = JSONparse(JSONstringify(jobs[j].order)),
                                  !.emitted = <<>>]
     IN RunToAwait(j, start, <<Event("routing", NoDetails), Event("pending", NoDetails)>>,
                   [start EXCEPT !.pc = "routing"], FALSE)
  /\ wait' = Tail(wait)
  /\ UNCHANGED <<reply, server, routed, activeWebSocketConnections, orderConnections>>

Claim ==
  /\ wait # <<>>
  /\ HasFreeSlot
  /\ LET j == Head(wait)
         start == [jobs[j] EXCEPT !.state = "active",
                                  !.pc = "pending",
                                  !.attemptsStarted = @ + 1,
                                  !.received = JSONparse(JSONstringify(jobs[j].order)),
                                  !.emitted = <<>>]
     IN IF server = "production"
        THEN RunToAwait(j, start, <<Event("pending", NoDetails), Event("routing", NoDetails)>>,
                        [start EXCEPT !.pc = "routing"], FALSE)
        ELSE RunToAwait(j, start, <<Event("pending", NoDetails)>>, start, FALSE)
  /\ wait' = Tail(wait)
  /\ UNCHANGED <<reply, server, routed, activeWebSocketConnections, orderConnections>>

\* Harness only: the timer after pending fires; emit routing, enter the try
\* block and await getQuotes.
RoutingStarts(j) ==
  /\ server = "harness"
  /\ jobs[j].state = "active"
  /\ jobs[j].pc = "pending"
  /\ RunToAwait(j, jobs[j], <<Event("routing", NoDetails)>>,
                [jobs[j] EXCEPT !.pc = "routing"], FALSE)
  /\ UNCHANGED <<wait, reply, server, routed, activeWebSocketConnections, orderConnections>>

\* getQuotes resolves: select the best quote, emit building, await the
\* simulated transaction building.
QuotesResolved(j, pR, pM) ==
  /\ jobs[j].state = "active"
  /\ jobs[j].pc = "routing"
  /\ RunToAwait(j, jobs[j],
                <<Event("building",
                        QuoteDetails(selectBestQuote(getQuotes(pR, pM),
                                                     jobs[j].order.side)))>>,
                [jobs[j] EXCEPT !.pc = "building",
                                !.quotes = getQuotes(pR, pM),
                                !.best = selectBestQuote(getQuotes(pR, pM),
                                                         jobs[j].order.side)],
                TRUE)
  /\ UNCHANGED <<wait, reply, server, routed, activeWebSocketConnections, orderConnections>>

\* simulateTransactionBuilding resolves: emit submitted, await the simulated
\* execution.
BuildDone_SkipSubmitted(j) ==
  /\ jobs[j].state = "active"
  /\ jobs[j].pc = "building"
  /\ jobs' = [jobs EXCEPT ![j].pc = "submitted"]
  /\ UNCHANGED <<wait, reply, server, routed, ws>>

BuildDone(j) ==
  /\ jobs[j].state = "active"
  /\ jobs[j].pc = "building"
  /\ RunToAwait(j, jobs[j], <<Event("submitted", NoDetails)>>,
                [jobs[j] EXCEPT !.pc = "submitted"], TRUE)
  /\ UNCHANGED <<wait, reply, server, routed, activeWebSocketConnections, orderConnections>>

\* simulateTransactionExecution resolves: emit confirmed with the execution
\* details; the processor returns and the queue marks the job completed.
ExecutionDone_InOrder(j) ==
  /\ jobs[j].state = "active"
  /\ jobs[j].pc = "submitted"
  /\ \A i \in JobIds : i < j => jobs[i].state # "active"
  /\ RunToAwait(j, jobs[j], <<Event("confirmed", buildExecutionDetails(jobs[j].best))>>,
                [jobs[j] EXCEPT !.state = "completed",
                                !.pc = "idle",
                                !.attemptsMade = @ + 1,
                                !.quotes = <<>>,
                                !.best = NoQuote],
                TRUE)
  /\ UNCHANGED <<wait, reply, server, routed, activeWebSocketConnections, orderConnections>>

ExecutionDone(j) ==
  /\ jobs[j].state = "active"
  /\ jobs[j].pc = "submitted"
  /\ RunToAwait(j, jobs[j], <<Event("confirmed", buildExecutionDetails(jobs[j].best))>>,
                [jobs[j] EXCEPT !.state = "completed",
                                !.pc = "idle",
                                !.attemptsMade = @ + 1,
                                !.quotes = <<>>,
                                !.best = NoQuote],
                TRUE)
  /\ UNCHANGED <<wait, reply, server, routed, activeWebSocketConnections, orderConnections>>

\* The promise the processor awaits rejects (e.g. the router fails).
\* Production awaits getQuotes and the two simulate* methods; the harness
\* awaits getQuotes (which its tests make reject) and bare timers, which
\* cannot reject.
AttemptFails_Swallowed(j, error) ==
  /\ jobs[j].state = "active"
  /\ server = "harness" => jobs[j].pc = "routing"
  /\ jobs' = [jobs EXCEPT ![j] =
                [Throw(jobs[j], sockets, TRUE, error).job
                   EXCEPT !.state = "completed", !.backoff = 0]]
  /\ sockets' = Throw(jobs[j], sockets, TRUE, error).sockets
  /\ UNCHANGED <<wait, reply, server, routed, activeWebSocketConnections, orderConnections>>

AttemptFails(j, error) ==
  /\ jobs[j].state = "active"
  /\ server = "harness" => jobs[j].pc = "routing"
  /\ jobs' = [jobs EXCEPT ![j] = Throw(jobs[j], sockets, TRUE, error).job]
  /\ sockets' = Throw(jobs[j], sockets, TRUE, error).sockets
  /\ UNCHANGED <<wait, reply, server, routed, activeWebSocketConnections, orderConnections>>

\* Time passes for every delayed job.
Tick ==
  /\ \E j \in JobIds : jobs[j].state = "delayed" /\ jobs[j].waited < jobs[j].backoff
  /\ jobs' = [j \in JobIds |->
                IF jobs[j].state = "delayed" /\ jobs[j].waited < jobs[j].backoff
                THEN [jobs[j] EXCEPT !.waited = @ + TimeStep]
                ELSE jobs[j]]
  /\ UNCHANGED <<wait, reply, server, routed, ws>>

\* The queue moves a delayed job whose delay has elapsed back to the wait
\* list.
Promote_KeepDelayed(j) ==
  /\ jobs[j].state = "delayed"
  /\ IsDue(jobs[j])
  /\ Len(wait) < MaxJobs
  /\ UNCHANGED <<jobs, reply, server, routed, ws>>
  /\ wait' = Append(wait, j)

Promote(j) ==
  /\ jobs[j].state = "delayed"
  /\ IsDue(jobs[j])
  /\ jobs' = [jobs EXCEPT ![j].state = "waiting"]
  /\ wait' = Append(wait, j)
  /\ UNCHANGED <<reply, server, routed, ws>>

Next ==
  \/ \E order \in Orders : Submit(order)
  \/ Claim
  \/ \E j \in JobIds, pR \in Prices, pM \in Prices : QuotesResolved(j, pR, pM)
  \/ \E j \in JobIds : BuildDone(j)
  \/ \E j \in JobIds : ExecutionDone(j)
  \/ \E j \in JobIds : AttemptFails(j, "Network timeout")
  \/ Tick
  \/ \E j \in JobIds : Promote(j)

Spec == Init /\ [][Next]_vars

\* ------------------------------------------------- no-failure specification
\* The production router never rejects (MockRouter.getQuotes has no throw) and
\* the simulated delays are timers that always fire: every pass runs to
\* confirmed.  Timers firing and the worker polling the queue are the
\* fairness the runtime provides; submissions are up to the clients.
NextNoFail ==
  \/ \E order \in Orders : Submit(order)
  \/ Claim
  \/ \E j \in JobIds, pR \in Prices, pM \in Prices : QuotesResolved(j, pR, pM)
  \/ \E j \in JobIds : BuildDone(j)
  \/ \E j \in JobIds : ExecutionDone(j)

Fairness ==
  /\ WF_vars(Claim)
  /\ \A j \in 1..MaxJobs :
       /\ WF_vars(j \in JobIds /\ \E pR \in Prices, pM \in Prices : QuotesResolved(j, pR, pM))
       /\ WF_vars(j \in JobIds /\ BuildDone(j))
       /\ WF_vars(j \in JobIds /\ ExecutionDone(j))

BurstSpec == Init /\ [][NextNoFail]_vars /\ Fairness

\* ---------------------------------------------------- WebSocket specifications
\* The production server with clients that open sockets (naming the order
\* they follow in the URL, as the harness expects) and close them, while one
\* order goes through the pipeline.
ProductionWsNext ==
  \/ \E order \in Orders : jobs = <<>> /\ Submit(order)
  \/ Claim
  \/ \E j \in JobIds : QuotesResolved(j, 150, 149)
  \/ \E j \in JobIds : BuildDone(j)
  \/ \E j \in JobIds : ExecutionDone(j)
  \/ \E j \in JobIds : AttemptFails(j, "Network timeout")
  \/ \E orderId \in OrderIds, sendThrows \in BOOLEAN : Connect(orderId, sendThrows)
  \/ \E c \in SocketIds : SocketCloses(c)
  \/ \E c \in SocketIds : CloseHandler(c)

ProductionWsSpec == Init /\ [][ProductionWsNext]_vars

\* The worker with attempts that may fail and are retried, under the
\* scheduling the runtime provides: the worker fetches when it can, awaited
\* promises settle, time passes and due jobs are promoted.  An attempt fails
\* when getQuotes rejects (the simulated build and execution are bare timers).
RetryLiveNext ==
  \/ \E order \in Orders : Submit(order)
  \/ Claim
  \/ \E j \in JobIds : QuotesResolved(j, 150, 149)
  \/ \E j \in JobIds : BuildDone(j)
  \/ \E j \in JobIds : ExecutionDone(j)
  \/ \E j \in JobIds : jobs[j].pc = "routing" /\ AttemptFails(j, "Network timeout")
  \/ Tick
  \/ \E j \in JobIds : Promote(j)

RetryFairness ==
  /\ WF_vars(Claim)
  /\ WF_vars(Tick)
  /\ \A j \in 1..MaxJobs :
       /\ WF_vars(j \in JobIds /\ QuotesResolved(j, 150, 149))
       /\ WF_vars(j \in JobIds /\ BuildDone(j))
       /\ WF_vars(j \in JobIds /\ ExecutionDone(j))
       /\ WF_vars(j \in JobIds /\ Promote(j))

RetryLiveSpec == Init /\ [][RetryLiveNext]_vars /\ RetryFairness

\* The production server with one order whose attempts may fail, with either
\* error, and are retried, watched by clients.
Errors == {"Network timeout", "Custom error: Network timeout during order execution"}

ProductionRetryNext ==
  \/ \E order \in Orders : jobs = <<>> /\ Submit(order)
  \/ Claim
  \/ \E j \in JobIds : QuotesResolved(j, 150, 149)
  \/ \E j \in JobIds : BuildDone(j)
  \/ \E j \in JobIds : ExecutionDone(j)
  \/ \E j \in JobIds, error \in Errors : AttemptFails(j, error)
  \/ Tick
  \/ \E j \in JobIds : Promote(j)
  \/ Connect("o1", FALSE)

ProductionRetrySpec == Init /\ [][ProductionRetryNext]_vars

\* The production server with one order, retried after failed attempts, whose
\* passes receive different quotes, watched by clients.
ProductionQuoteNext ==
  \/ \E order \in Orders : jobs = <<>> /\ Submit(order)
  \/ Claim
  \/ \E j \in JobIds, pR \in Prices, pM \in Prices : QuotesResolved(j, pR, pM)
  \/ \E j \in JobIds : BuildDone(j)
  \/ \E j \in JobIds : ExecutionDone(j)
  \/ \E j \in JobIds : AttemptFails(j, "Network timeout")
  \/ Tick
  \/ \E j \in JobIds : Promote(j)
  \/ Connect("o1", FALSE)

ProductionQuoteSpec == Init /\ [][ProductionQuoteNext]_vars

\* The server of tests/websocket.test.ts: same queue options and router, its
\* own processor, registry and /ws route.  Each order is submitted once, as
\* in the WebSocket tests.
HarnessInit ==
  /\ jobs = <<>>
  /\ wait = <<>>
  /\ reply = NoReply
  /\ server = "harness"
  /\ sockets = <<>>
  /\ activeWebSocketConnections = {}
  /\ orderConnections = EmptyMap
  /\ routed = NoCall

HarnessNext ==
  \/ \E order \in Orders : JobsOf(order.id) = {} /\ Submit(order)
  \/ Claim
  \/ \E j \in JobIds : RoutingStarts(j)
  \/ \E j \in JobIds : QuotesResolved(j, 150, 149)
  \/ \E j \in JobIds : BuildDone(j)
  \/ \E j \in JobIds : ExecutionDone(j)
  \/ \E j \in JobIds : AttemptFails(j, "Network timeout")
  \/ \E orderId \in OrderIds \cup {""} : Connect(orderId, FALSE)
  \/ \E c \in SocketIds : SocketCloses(c)
  \/ \E c \in SocketIds : CloseHandler(c)

HarnessSpec == HarnessInit /\ [][HarnessNext]_vars

\* The harness with a router that does not fail.  Timers firing, getQuotes
\* resolving and the worker polling the queue are the fairness the runtime
\* provides; what the clients do is up to them.
HarnessNoFailNext ==
  \/ \E order \in Orders : JobsOf(order.id) = {} /\ Submit(order)
  \/ Claim
  \/ \E j \in JobIds : RoutingStarts(j)
  \/ \E j \in JobIds : QuotesResolved(j, 150, 149)
  \/ \E j \in JobIds : BuildDone(j)
  \/ \E j \in JobIds : ExecutionDone(j)
  \/ \E orderId \in OrderIds \cup {""} : Connect(orderId, FALSE)
  \/ \E c \in SocketIds : SocketCloses(c)
  \/ \E c \in SocketIds : CloseHandler(c)

HarnessFairness ==
  /\ WF_vars(Claim)
  /\ \A j \in 1..MaxJobs :
       /\ WF_vars(j \in JobIds /\ RoutingStarts(j))
       /\ WF_vars(j \in JobIds /\ QuotesResolved(j, 150, 149))
       /\ WF_vars(j \in JobIds /\ BuildDone(j))
       /\ WF_vars(j \in JobIds /\ ExecutionDone(j))

HarnessLiveSpec == HarnessInit /\ [][HarnessNoFailNext]_vars /\ HarnessFairness

\* -------------------------------------------------------- quote specification
\* The two quote selections as functions of their inputs: a client calls
\* MockRouter.getQuote; the pipeline applies selectBestQuote to what getQuotes
\* returned.
GetQuote(tokenAddress, amount, slippage, raydiumPrice, meteoraPrice) ==
  /\ routed' = [fn |-> "getQuote",
                tokenAddress |-> tokenAddress, amount |-> amount,
                slippage |-> slippage,
                raydiumPrice |-> raydiumPrice, meteoraPrice |-> meteoraPrice,
                result |-> getQuote(tokenAddress, amount, slippage,
                                    raydiumPrice, meteoraPrice)]
  /\ UNCHANGED <<jobs, wait, reply, server, ws>>

SelectBestQuote(orderSide, raydiumPrice, meteoraPrice) ==
  /\ routed' = [fn |-> "selectBestQuote",
                orderSide |-> orderSide,
                raydiumPrice |-> raydiumPrice, meteoraPrice |-> meteoraPrice,
                result |-> selectBestQuote(getQuotes(raydiumPrice, meteoraPrice),
                                           orderSide)]
  /\ UNCHANGED <<jobs, wait, reply, server, ws>>

\* MockRouter.getQuotes(pair, amount): after the simulated delay, one quote
\* per venue with a freshly drawn price; pair and amount are not looked at.
GetQuotes(pair, amount, rR, rM) ==
  /\ routed' = [fn |-> "getQuotes",
                pair |-> pair, amount |-> amount, rR |-> rR, rM |-> rM,
                result |-> getQuotes(
                  calculatePriceWithVariance(BASE_PRICE, RAYDIUM_VARIANCE, rR),
                  calculatePriceWithVariance(BASE_PRICE, METEORA_VARIANCE, rM))]
  /\ UNCHANGED <<jobs, wait, reply, server, ws>>

QuoteNext ==
  \/ \E tokenAddress \in Tokens, amount \in Amounts, slippage \in Slippages,
        raydiumPrice \in Prices, meteoraPrice \in Prices :
        GetQuote(tokenAddress, amount, slippage, raydiumPrice, meteoraPrice)
  \/ \E orderSide \in {"buy", "sell"}, raydiumPrice \in Prices, meteoraPrice \in Prices :
        SelectBestQuote(orderSide, raydiumPrice, meteoraPrice)
  \/ \E pair \in Pairs, amount \in Amounts, rR \in Draws, rM \in Draws :
        GetQuotes(pair, amount, rR, rM)

QuoteSpec == Init /\ [][QuoteNext]_vars

\* ---------------------------------------------------- admission specification
\* The HTTP handler alone, over every request body: accepted, refused by
\* validation, or answered 500 because the queue is unavailable.
AdmissionNext ==
  \/ \E order \in Bodies : Submit(order)
  \/ \E order \in Bodies : RejectInvalid(order)
  \/ \E order \in Bodies : QueueFails(order)

AdmissionSpec == Init /\ [][AdmissionNext]_vars

\* ------------------------------------------------------------------ claims
\* The last pass of job j ended in a failure.
LastPassFailed(j) ==
  \/ jobs[j].state \in {"delayed", "failed"}
  \/ jobs[j].state = "waiting" /\ jobs[j].attemptsMade > 0

\* C1: a pass that does not fail emits exactly pending, routing, building,
\* submitted, confirmed, in that order, each once; while the pass runs the
\* statuses emitted so far are a proper prefix of that sequence, and in no
\* state has a completed job's pass emitted anything beyond confirmed.
C1_SuccessSequence ==
  \A j \in JobIds :
    /\ jobs[j].state = "completed" =>
         jobs[j].emitted = <<"pending", "routing", "building", "submitted", "confirmed">>
    /\ jobs[j].state = "active" =>
         /\ IsPrefix(jobs[j].emitted, Lifecycle)
         /\ Len(jobs[j].emitted) < Len(Lifecycle)

C1_Witness ==
  \E j \in JobIds :
    /\ jobs[j].state = "completed"
    /\ jobs[j].emitted = Lifecycle

\* C2: a pass that fails emits a strict prefix of the lifecycle sequence
\* followed by failed exactly once; in every state from the failure until the
\* job is claimed again that is all the attempt has emitted.
C2_FailedSequence ==
  \A j \in JobIds :
    LastPassFailed(j) =>
      \E k \in 0..(Len(Lifecycle) - 1) :
        jobs[j].emitted = SubSeq(Lifecycle, 1, k) \o <<"failed">>

C2_Witness ==
  \E j \in JobIds :
    /\ jobs[j].state = "failed"
    /\ jobs[j].emitted = <<"pending", "routing", "building", "submitted", "failed">>

\* C3: never more than Concurrency jobs are active, however many are
\* waiting, and a waiting job becomes active only from a state with fewer
\* than Concurrency active jobs.
C3_ConcurrencyCeiling ==
  /\ [](ActiveCount <= Concurrency)
  /\ [][\A j \in JobIds :
          (jobs[j].state = "waiting" /\ jobs'[j].state = "active") =>
            Cardinality({ i \in JobIds : jobs[i].state = "active" }) < Concurrency]_vars

C3_Witness ==
  /\ ActiveCount = Concurrency
  /\ wait # <<>>
  /\ Len(jobs) > Concurrency

\* C4: with more jobs enqueued than slots, no job stays waiting forever:
\* every enqueued job is eventually claimed, and eventually every enqueued
\* job is completed.
C4_BurstCompletes ==
  /\ \A j \in 1..MaxJobs :
       (j \in JobIds /\ jobs[j].state = "waiting")
         ~> (j \in JobIds /\ jobs[j].state # "waiting")
  /\ <>[](\A j \in JobIds : jobs[j].state = "completed")

C4_Witness ==
  /\ Len(jobs) = MaxJobs
  /\ MaxJobs > Concurrency
  /\ \A j \in JobIds : jobs[j].state = "completed" /\ jobs[j].attemptsStarted = 1

\* C5: submitting the same order id twice results in exactly one executed
\* lifecycle for that id: at most one job of an order id is ever executed.
C5_OneLifecyclePerOrderId ==
  \A id \in OrderIds :
    Cardinality({ j \in JobsOf(id) : jobs[j].attemptsStarted > 0 }) <= 1

\* C6: for every order id at most one job exists in the queue, over all of
\* its states.
C6_OneJobPerOrderId ==
  \A id \in OrderIds : Cardinality(JobsOf(id)) <= 1

\* C7: for every order id at most one lifecycle pass is in progress at any
\* instant.
C7_OneActivePassPerOrderId ==
  \A id \in OrderIds :
    Cardinality({ j \in JobsOf(id) : jobs[j].state = "active" }) <= 1

\* C8: a job whose first attempt fails and whose second attempt succeeds is
\* completed after exactly two attempts: the processor ran twice for it and
\* is never run for it again.
C8_SuccessOnSecondAttempt ==
  /\ [](\A j \in JobIds :
          /\ (jobs[j].attemptsStarted = 2 /\ jobs[j].emitted = Lifecycle) =>
               (jobs[j].state = "completed" /\ jobs[j].attemptsMade = 2)
          /\ (jobs[j].state = "completed" /\ jobs[j].attemptsMade = 2) =>
               jobs[j].attemptsStarted = 2)
  /\ [][\A j \in JobIds :
          jobs[j].state = "completed" =>
            /\ jobs'[j].state = "completed"
            /\ jobs'[j].attemptsStarted = jobs[j].attemptsStarted]_vars

C8_Witness ==
  \E j \in JobIds :
    /\ jobs[j].state = "completed"
    /\ jobs[j].attemptsStarted = 2
    /\ jobs[j].attemptsMade = 2

\* C9: a job whose every attempt fails is attempted exactly 3 times and is
\* then failed with attemptsMade = 3; attemptsMade never exceeds 3, a job
\* with attempts left is not failed, and no attempt starts for a failed job
\* (an attempt would be its fourth, or make it active with 3 attempts made).
C9_RetriesExhausted ==
  \A j \in JobIds :
    /\ jobs[j].attemptsMade <= 3
    /\ jobs[j].attemptsStarted <= 3
    /\ jobs[j].state = "failed" =>
         (jobs[j].attemptsMade = 3 /\ jobs[j].attemptsStarted = 3)
    /\ jobs[j].state \in {"delayed", "active"} => jobs[j].attemptsMade < 3

C9_Witness ==
  \E j \in JobIds :
    /\ jobs[j].state = "failed"
    /\ jobs[j].attemptsMade = 3
    /\ jobs[j].attemptsStarted = 3

\* C10: the retry after the k-th failed attempt is scheduled 2000 * 2^(k-1)
\* ms later (2000 after the first, 4000 after the second, so the delays of a
\* job never decrease), and a retry is queued and started only after its
\* delay has elapsed.
C10_ExponentialBackoff ==
  \A j \in JobIds :
    /\ (jobs[j].state \notin {"completed", "failed"} /\ jobs[j].attemptsMade = 1) => jobs[j].backoff = 2000
    /\ (jobs[j].state \notin {"completed", "failed"} /\ jobs[j].attemptsMade = 2) => jobs[j].backoff = 4000
    /\ (jobs[j].attemptsMade >= 1 /\ jobs[j].state \in {"waiting", "active"}) =>
         jobs[j].waited >= jobs[j].backoff

C10_Witness ==
  \E j \in JobIds :
    /\ jobs[j].state = "active"
    /\ jobs[j].attemptsStarted = 3
    /\ jobs[j].backoff = 4000
    /\ jobs[j].waited >= 4000

\* The order has every required property and a positive amount.
WellFormed(order) ==
  /\ order.absent = {}
  /\ order.id # "" /\ order.userId # "" /\ order.pair # "" /\ order.side # ""
  /\ order.amount > 0

\* C17: an order is accepted only if id, pair, side, amount and userId are
\* present and the amount is greater than zero; any other request is refused
\* with a validation error and no job is enqueued for it.
C17_OnlyValidOrdersAccepted ==
  /\ \A j \in JobIds : WellFormed(jobs[j].order)
  /\ reply.code = 202 => WellFormed(reply.request)
  /\ reply.code = 400 => ~WellFormed(reply.request)

\* C18: when validation passes but the enqueue fails the answer is the
\* queueing error (500 'Failed to queue order'), which differs from the
\* validation error (400); an acceptance is reported only for an order whose
\* job was enqueued.
C18_QueueFailureIsDistinctError ==
  /\ reply.code \in {0, 202, 400, 500}
  /\ reply.code = 500 =>
       /\ isValidOrder(reply.request)
       /\ reply.error = "Failed to queue order"
       /\ reply.error # Invalid(reply.request).error
       /\ reply.status # "queued"
  /\ reply.code = 400 => ~isValidOrder(reply.request)
  /\ reply.code = 202 =>
       /\ Len(jobs) > 0
       /\ jobs[Len(jobs)].order = reply.request

C18_Witness ==
  /\ reply.code = 500
  /\ reply.request.id = "o1"
  /\ JobsOf("o1") = {}

\* C19: a valid order submitted while the queue is available is answered 202
\* with status 'queued' and the order's id, and the step enqueues exactly one
\* job for it, with 3 attempts and exponential backoff of base 2000 ms.
C19_AcceptedOrderEnqueuedOnce ==
  [][ \A order \in Bodies :
        Submit(order) =>
          /\ reply'.code = 202
          /\ reply'.status = "queued"
          /\ reply'.orderId = order.id
          /\ Len(jobs') = Len(jobs) + 1
          /\ SubSeq(jobs', 1, Len(jobs)) = jobs
          /\ jobs'[Len(jobs')].order = order
          /\ jobs'[Len(jobs')].state = "waiting"
          /\ jobs'[Len(jobs')].opts =
               [attempts |-> 3,
                backoff |-> [type |-> "exponential", delay |-> 2000]] ]_vars

C19_Witness ==
  /\ reply.code = 202
  /\ reply.orderId = "o2"
  /\ Cardinality(JobsOf("o2")) = 1
  /\ \A j \in JobsOf("o2") : jobs[j].opts.attempts = 3

\* C20: the pipeline selects the lowest-priced quote for a buy order and the
\* highest-priced quote for a sell order, and the selected quote is one of the
\* quotes the router returned.
C20_BestQuoteSelected ==
  \A j \in JobIds :
    jobs[j].pc \in {"building", "submitted"} =>
      LET quotes == jobs[j].quotes
          best   == jobs[j].best
      IN /\ \E i \in 1..Len(quotes) : quotes[i] = best
         /\ jobs[j].order.side = "buy" =>
              \A i \in 1..Len(quotes) : best.price <= quotes[i].price
         /\ jobs[j].order.side = "sell" =>
              \A i \in 1..Len(quotes) : best.price >= quotes[i].price

C20_Witness ==
  \E j \in JobIds, k \in JobIds :
    /\ jobs[j].order.side = "buy" /\ jobs[j].pc = "building"
    /\ jobs[j].quotes = getQuotes(150, 149)
    /\ jobs[j].best.dex = "Meteora"
    /\ jobs[k].order.side = "sell" /\ jobs[k].pc = "building"
    /\ jobs[k].quotes = getQuotes(150, 149)
    /\ jobs[k].best.dex = "Raydium"

\* C11: a status event of an order reaches only the socket opened for that
\* order: no socket receives a status message of another order.
C11_SubscriberIsolation ==
  \A c \in SocketIds :
    \A i \in 1..Len(sockets[c].inbox) :
      sockets[c].inbox[i].type = "status" =>
        sockets[c].inbox[i].orderId = sockets[c].orderId

\* The statuses job j emits in the step.
NewlyEmitted(j) ==
  IF IsPrefix(jobs[j].emitted, jobs'[j].emitted)
  THEN SubSeq(jobs'[j].emitted, Len(jobs[j].emitted) + 1, Len(jobs'[j].emitted))
  ELSE jobs'[j].emitted

\* C12: publishing never raises into the worker and drops silently what it
\* cannot deliver: a step that publishes lifecycle statuses leaves the pass
\* running (or completed, after confirmed) with the attempt count it would
\* have had, whatever the registered sockets are; a pass ends in failure only
\* by a failure of its own, which publishes failed alone; a socket that is
\* closed or whose send throws receives nothing.
C12_DeliveryFailureIsDropped ==
  [][ /\ \A j \in JobIds :
           jobs'[j].emitted # jobs[j].emitted =>
             LET new == NewlyEmitted(j)
                 done == new[Len(new)] = "confirmed"
             IN \/ new = <<"failed">> /\ jobs[j].state = "active"
                \/ /\ \A i \in 1..Len(new) : new[i] # "failed"
                   /\ jobs'[j].state = IF done THEN "completed" ELSE "active"
                   /\ jobs'[j].attemptsMade =
                        jobs[j].attemptsMade + (IF done THEN 1 ELSE 0)
      /\ \A c \in SocketIds :
           (sockets[c].readyState # "OPEN" \/ sockets[c].sendThrows) =>
             sockets'[c].inbox = sockets[c].inbox ]_vars

C12_Witness ==
  /\ Len(sockets) = 2
  /\ activeWebSocketConnections = {1, 2}
  /\ sockets[1].sendThrows /\ sockets[1].readyState = "OPEN"
  /\ sockets[1].inbox = <<>>
  /\ sockets[2].readyState = "CLOSED"
  /\ sockets[2].inbox = << StatusMessage("o1", "pending"),
                           StatusMessage("o1", "routing") >>
  /\ Len(jobs) = 1
  /\ jobs[1].state = "completed"
  /\ jobs[1].emitted = Lifecycle

\* C13: there is no cancellation: a subscriber that disconnects (its socket
\* closes, its registration is removed) leaves the jobs and the wait list as
\* they are, and a claimed job still reaches completed.
C13_DisconnectDoesNotCancel ==
  /\ [][ (\E c \in SocketIds :
            \/ sockets'[c].readyState # sockets[c].readyState
            \/ sockets'[c].onClose # sockets[c].onClose)
         => UNCHANGED <<jobs, wait>> ]_vars
  /\ \A j \in 1..MaxJobs :
       (j \in JobIds /\ jobs[j].state = "active")
         ~> (j \in JobIds /\ jobs[j].state = "completed")

C13_Witness ==
  /\ Len(sockets) = 1
  /\ sockets[1].orderId = "o1"
  /\ sockets[1].readyState = "CLOSED"
  /\ sockets[1].inbox = << ConnectedMessage("o1"), StatusMessage("o1", "pending") >>
  /\ \E j \in JobsOf("o1") :
       jobs[j].state = "completed" /\ jobs[j].emitted = Lifecycle

\* The socket most recently opened for the order id.
MostRecent(id) ==
  CHOOSE c \in SocketIds :
    /\ sockets[c].orderId = id
    /\ \A d \in SocketIds : sockets[d].orderId = id => d <= c

C15_NoReplayAtMostOnce ==
  [][ \A c \in 1..Len(sockets') :
        IF c \notin SocketIds
        THEN sockets'[c].inbox \in { <<ConnectedMessage(sockets'[c].orderId)>>,
                                     <<ErrorMessage>> }
        ELSE \/ sockets'[c].inbox = sockets[c].inbox
             \/ \E j \in JobsOf(sockets[c].orderId) :
                  /\ Len(NewlyEmitted(j)) = 1
                  /\ jobs'[j].emitted # jobs[j].emitted
                  /\ \E details \in {NoDetails, sockets'[c].inbox[Len(sockets'[c].inbox)].details} :
                       sockets'[c].inbox =
                         Append(sockets[c].inbox,
                                StatusMessageWith(sockets[c].orderId,
                                                  NewlyEmitted(j)[1], details)) ]_vars

C15_Witness ==
  /\ Len(sockets) = 1
  /\ sockets[1].inbox =
       << ConnectedMessage("o1"),
          StatusMessageWith("o1", "building", QuoteDetails(getQuotes(150, 149)[2])),
          StatusMessage("o1", "submitted"),
          StatusMessageWith("o1", "confirmed", QuoteDetails(getQuotes(150, 149)[2])) >>
  /\ \E j \in JobsOf("o1") : jobs[j].emitted = Lifecycle

C21_TieSelectsRaydium ==
  /\ (routed.fn = "selectBestQuote" /\ routed.raydiumPrice = routed.meteoraPrice)
       => routed.result.dex = "Raydium"
  /\ (routed.fn = "getQuote" /\ routed.raydiumPrice = routed.meteoraPrice
        /\ ~routed.result.rejected)
       => routed.result.dex = "Raydium"

C21_Witness ==
  /\ routed.fn = "getQuote"
  /\ routed.raydiumPrice = 150 /\ routed.meteoraPrice = 150
  /\ ~routed.result.rejected
  /\ routed.result.dex = "Raydium"

\* C22: getQuote returns the venue with the lower price, that venue's fee and
\* minAmountOut = amount * price * (1 - slippagePercent / 100) for the selected
\* price, slippagePercent being 1 when omitted (price 150, amount 100: 14850
\* at 1%, 14700 at 2%, 14850 when omitted); amounts here are in hundredths.
C22_QuoteWithSlippage ==
  (routed.fn = "getQuote" /\ ~routed.result.rejected) =>
    LET r == routed.result
        p == IF routed.slippage = <<>> THEN 1 ELSE routed.slippage[1]
    IN /\ r.price <= routed.raydiumPrice /\ r.price <= routed.meteoraPrice
       /\ r.dex = "Raydium" => r.price = routed.raydiumPrice /\ r.fee = 3
       /\ r.dex = "Meteora" => r.price = routed.meteoraPrice /\ r.fee = 2
       /\ r.dex \in {"Raydium", "Meteora"}
       /\ r.minAmountOut * 100 = routed.amount * r.price * 100 * (100 - p)
       /\ (routed.amount = 100 /\ r.price = 150) =>
            r.minAmountOut = (IF p = 2 THEN 1470000 ELSE 1485000)

C22_Witness ==
  /\ routed.fn = "getQuote"
  /\ routed.amount = 100 /\ routed.slippage = <<>>
  /\ routed.result.price = 150
  /\ routed.result.dex = "Raydium"
  /\ routed.result.fee = 3
  /\ routed.result.minAmountOut = 1485000

\* C23: getQuote fails with an invalid-input error and returns no quote when
\* the token reference is empty or only white space or the amount is zero or
\* negative, and succeeds for every other input.
C23_InvalidInputRejected ==
  routed.fn = "getQuote" =>
    LET blank == \A i \in 1..Len(routed.tokenAddress) : routed.tokenAddress[i] = " "
    IN /\ routed.result.rejected <=> (blank \/ routed.amount <= 0)
       /\ routed.result.rejected =>
            /\ routed.result.dex = "none"
            /\ routed.result.error \in
                 { "Invalid token address: Token address cannot be empty",
                   "Invalid amount: Amount must be greater than zero" }
       /\ ~routed.result.rejected => routed.result.error = ""

C23_Witness ==
  /\ routed.fn = "getQuote"
  /\ routed.tokenAddress = <<" ", " ">>
  /\ routed.amount = 100
  /\ routed.result.rejected

C25_RouterFailureDuringRouting ==
  [][ \A j \in JobIds :
        (jobs[j].state = "active" /\ jobs[j].pc = "routing"
           /\ jobs'[j].state # "active") =>
          /\ jobs'[j].emitted = <<"pending", "routing", "failed">>
          /\ jobs'[j].attemptsMade = jobs[j].attemptsMade + 1
          /\ jobs'[j].state = IF jobs'[j].attemptsMade < attempts
                              THEN "delayed" ELSE "failed"
          /\ jobs'[j].failedReason \in Errors
          /\ \A c \in activeWebSocketConnections :
               sockets[c].readyState = "OPEN" =>
                 sockets'[c].inbox =
                   Append(sockets[c].inbox,
                          [type |-> "status", orderId |-> jobs[j].order.id,
                           status |-> "failed",
                           details |-> [error |-> jobs'[j].failedReason,
                                        dex |-> "", price |-> 0]]) ]_vars

C25_Witness ==
  /\ Len(jobs) = 1
  /\ jobs[1].emitted = <<"pending", "routing", "failed">>
  /\ jobs[1].state = "delayed"
  /\ jobs[1].attemptsMade = 1
  /\ jobs[1].failedReason = "Custom error: Network timeout during order execution"
  /\ Len(sockets) = 1
  /\ Len(sockets[1].inbox) = 3
  /\ sockets[1].inbox[3].status = "failed"
  /\ sockets[1].inbox[3].details.error = "Custom error: Network timeout during order execution"

\* C26: every retry is a fresh pass that starts at pending and fetches new
\* quotes.  A job has emitted as many pending events as it has started
\* attempts and exactly one failed event per failed attempt; a running pass
\* begins with pending, and holds no quotes of an earlier attempt while it is
\* routing.
C26_RetryIsFreshPass ==
  \A j \in JobIds :
    /\ jobs[j].pendingEmitted = jobs[j].attemptsStarted
    /\ jobs[j].failedEmitted =
         jobs[j].attemptsMade - (IF jobs[j].state = "completed" THEN 1 ELSE 0)
    /\ jobs[j].state = "active" =>
         /\ jobs[j].emitted # <<>>
         /\ jobs[j].emitted[1] = "pending"
         /\ jobs[j].attemptsStarted = jobs[j].attemptsMade + 1
    /\ (jobs[j].state = "active" /\ jobs[j].pc = "routing") =>
         jobs[j].quotes = <<>> /\ jobs[j].best = NoQuote

\* After two failed attempts (two failed events) the third attempt has
\* started again at pending and has gone on to building with its own quotes.
C26_Witness ==
  \E j \in JobIds :
    /\ jobs[j].failedEmitted = 2
    /\ jobs[j].pendingEmitted = 3
    /\ jobs[j].state = "active"
    /\ jobs[j].emitted = <<"pending", "routing", "building">>
    /\ jobs[j].quotes # <<>>

\* C27: events of different jobs are not ordered relative to each other:
\* whenever two jobs both await their execution, either of them may be the
\* next to emit confirmed, whichever was enqueued first.  The events of each
\* single job still follow the lifecycle order.
C27_NoOrderAcrossJobs ==
  /\ \A j \in JobIds : IsPrefix(jobs[j].emitted, Lifecycle)
  /\ \A a \in JobIds : \A b \in JobIds :
       (a # b /\ jobs[a].state = "active" /\ jobs[a].pc = "submitted"
              /\ jobs[b].state = "active" /\ jobs[b].pc = "submitted") =>
         ENABLED ExecutionDone(a) /\ ENABLED ExecutionDone(b)

\* Job 1 was confirmed before job 2, and job 3, enqueued after job 2, was
\* confirmed before it as well.
C27_Witness ==
  /\ Len(jobs) = 3
  /\ jobs[1].state = "completed" /\ jobs[1].emitted = Lifecycle
  /\ jobs[3].state = "completed" /\ jobs[3].emitted = Lifecycle
  /\ jobs[2].state = "active"
  /\ jobs[2].emitted = <<"pending", "routing", "building", "submitted">>

\* The number of times job j occurs in the wait list.
Occurrences(j) == Cardinality({ i \in 1..Len(wait) : wait[i] = j })

\* C28: a job is always in exactly one of the queue states waiting, active,
\* delayed, completed, failed (it is in the wait list, once, exactly when it
\* is waiting).  An enqueued job starts waiting; a job becomes active only by
\* being claimed from the head of the wait list; it leaves active only to
\* completed, delayed or failed; completed and failed are never left.
C28_QueueStates ==
  /\ [](\A j \in JobIds :
          /\ jobs[j].state \in {"waiting", "active", "delayed", "completed", "failed"}
          /\ Occurrences(j) = (IF jobs[j].state = "waiting" THEN 1 ELSE 0))
  /\ [][\A j \in DOMAIN jobs' :
          IF j \notin JobIds
          THEN jobs'[j].state = "waiting"
          ELSE /\ (jobs'[j].state = "active" /\ jobs[j].state # "active") =>
                    (jobs[j].state = "waiting" /\ wait # <<>> /\ Head(wait) = j)
               /\ (jobs[j].state = "active" /\ jobs'[j].state # "active") =>
                    jobs'[j].state \in {"completed", "delayed", "failed"}
               /\ jobs[j].state \in {"completed", "failed"} =>
                    jobs'[j].state = jobs[j].state]_vars

\* Three jobs in three different states, one of them delayed after a failed
\* attempt, with one job waiting for a slot.
C28_Witness ==
  /\ Len(jobs) = 3
  /\ jobs[1].state = "completed"
  /\ jobs[2].state = "delayed"
  /\ jobs[3].state = "waiting"
  /\ wait = <<3>>

\* The failed events a client has received, oldest first.
IsFailedEvent(message) == message.type = "status" /\ message.status = "failed"

FailedEvents(c) == SelectSeq(sockets[c].inbox, IsFailedEvent)

\* C29: the failed event of an attempt carries the message of the error that
\* attempt threw, and the failure reason the queue stores is that message;
\* so the reason stored for a permanently failed job is the message of the
\* error of its last attempt, not of an earlier one.
C29_FailureReasonIsLastError ==
  /\ [][\A j \in JobIds :
          jobs'[j].failedEmitted > jobs[j].failedEmitted =>
            \E error \in Errors :
              /\ jobs'[j].failedReason = error
              /\ \A c \in activeWebSocketConnections :
                   sockets[c].readyState = "OPEN" =>
                     /\ Len(sockets'[c].inbox) = Len(sockets[c].inbox) + 1
                     /\ sockets'[c].inbox[Len(sockets'[c].inbox)].status = "failed"
                     /\ sockets'[c].inbox[Len(sockets'[c].inbox)].details.error = error]_vars
  /\ [](\A j \in JobIds :
          jobs[j].state = "failed" =>
            \A c \in activeWebSocketConnections :
              FailedEvents(c) # <<>> =>
                FailedEvents(c)[Len(FailedEvents(c))].details.error = jobs[j].failedReason)

\* The job failed three times with a different error on the last attempt:
\* the client saw the three messages and the stored reason is the last one.
C29_Witness ==
  /\ Len(jobs) = 1
  /\ jobs[1].state = "failed"
  /\ jobs[1].attemptsMade = 3
  /\ jobs[1].failedReason = "Custom error: Network timeout during order execution"
  /\ Len(sockets) >= 1
  /\ Len(FailedEvents(1)) = 3
  /\ FailedEvents(1)[1].details.error = "Network timeout"
  /\ FailedEvents(1)[2].details.error = "Network timeout"
  /\ FailedEvents(1)[3].details.error = "Custom error: Network timeout during order execution"

C31_DistinctIdsOwnJob ==
  /\ [](reply.code = 202 => JobsOf(reply.orderId) # {})
  /\ [](\A j \in JobIds :
          /\ jobs[j].attemptsStarted <= 1
          /\ jobs[j].state = "completed" =>
               (jobs[j].attemptsStarted = 1 /\ jobs[j].pendingEmitted = 1
                  /\ jobs[j].emitted = Lifecycle))
  /\ [][/\ Len(jobs') >= Len(jobs)
         /\ \A j \in JobIds : jobs'[j].order.id = jobs[j].order.id]_vars

\* o2 was submitted before o1; each has its own job, processed once.
C31_Witness ==
  /\ Len(jobs) = 2
  /\ jobs[1].order.id = "o2" /\ jobs[2].order.id = "o1"
  /\ \A j \in JobIds :
       jobs[j].state = "completed" /\ jobs[j].attemptsStarted = 1

C33_TwoQuotesFixedFees ==
  routed.fn = "getQuotes" =>
    /\ Len(routed.result) = 2
    /\ routed.result[1].dex = "Raydium" /\ routed.result[1].fee = 3
    /\ routed.result[2].dex = "Meteora" /\ routed.result[2].fee = 2

\* An empty pair and a negative amount still yield the two quotes.
C33_Witness ==
  /\ routed.fn = "getQuotes"
  /\ routed.pair = "" /\ routed.amount = -100
  /\ Len(routed.result) = 2
  /\ routed.result[1].fee = 3 /\ routed.result[2].fee = 2

\* C34: the close of a replaced socket does not remove its successor's
\* registration: an open socket that is the most recently opened one for its
\* order id is the socket registered for that id (and so keeps receiving the
\* order's events).
C34_StaleCloseKeepsSuccessor ==
  \A c \in SocketIds :
    (sockets[c].readyState = "OPEN" /\ sockets[c].orderId \in OrderIds
       /\ c = MostRecent(sockets[c].orderId)) =>
      /\ sockets[c].orderId \in DOMAIN orderConnections
      /\ orderConnections[sockets[c].orderId] = c

\* The building events a client has received, oldest first.
IsBuildingEvent(message) == message.type = "status" /\ message.status = "building"

BuildingEvents(c) == SelectSeq(sockets[c].inbox, IsBuildingEvent)

\* C35: the venue and price of a pass's confirmed event are those of the same
\* pass's building event, and both are those of the quote selected from the
\* quotes the pass fetched; the quotes of a pass are fetched once: they do not
\* change between building and confirmed.
C35_ConfirmedMatchesBuilding ==
  [][ \A j \in JobIds :
        /\ (jobs[j].state = "active" /\ jobs[j].pc \in {"building", "submitted"}
               /\ jobs'[j].state = "active") =>
             (jobs'[j].quotes = jobs[j].quotes /\ jobs'[j].best = jobs[j].best)
        /\ (jobs[j].state = "active" /\ jobs'[j].state = "completed") =>
             /\ \E i \in 1..Len(jobs[j].quotes) : jobs[j].quotes[i] = jobs[j].best
             /\ \A c \in activeWebSocketConnections :
                  sockets[c].readyState = "OPEN" =>
                    LET inbox == sockets'[c].inbox
                        confirmed == inbox[Len(inbox)]
                        building == BuildingEvents(c)
                    IN /\ Len(inbox) = Len(sockets[c].inbox) + 1
                       /\ confirmed.status = "confirmed"
                       /\ confirmed.details.dex = jobs[j].best.dex
                       /\ confirmed.details.price = jobs[j].best.price
                       /\ (building # <<>>
                             /\ Len(sockets[c].inbox) >= 2
                             /\ sockets[c].inbox[Len(sockets[c].inbox) - 1].status = "building") =>
                            /\ confirmed.details.dex =
                                 building[Len(building)].details.dex
                            /\ confirmed.details.price =
                                 building[Len(building)].details.price ]_vars

\* The first pass built on Raydium at 149 and failed; the second pass
\* fetched other quotes, built on Meteora at 150 (a sell) and was confirmed
\* with that venue and price.
C35_Witness ==
  /\ Len(jobs) = 1 /\ jobs[1].state = "completed" /\ jobs[1].attemptsMade = 2
  /\ jobs[1].order.side = "sell"
  /\ Len(sockets) >= 1
  /\ Len(BuildingEvents(1)) = 2
  /\ BuildingEvents(1)[1].details.dex = "Raydium"
  /\ BuildingEvents(1)[1].details.price = 149
  /\ BuildingEvents(1)[2].details.dex = "Meteora"
  /\ BuildingEvents(1)[2].details.price = 150
  /\ sockets[1].inbox[Len(sockets[1].inbox)].status = "confirmed"
  /\ sockets[1].inbox[Len(sockets[1].inbox)].details.dex = "Meteora"
  /\ sockets[1].inbox[Len(sockets[1].inbox)].details.price = 150

\* Status y may directly follow status x in the stream of one job: the next
\* lifecycle status of the same attempt, the attempt's failed event, or the
\* pending of the next attempt after a failed one.
MayFollow(x, y) ==
  \/ \E i \in 1..(Len(Lifecycle) - 1) : x = Lifecycle[i] /\ y = Lifecycle[i + 1]
  \/ y = "failed" /\ x \in {"pending", "routing", "building", "submitted"}
  \/ x = "failed" /\ y = "pending"

\* C36: the events of different attempts of a job do not interleave: in the
\* stream of statuses a client receives for the job, the failed event of an
\* attempt comes before the pending of the next attempt, each pending after
\* the first event directly follows a failed, and the stream is a
\* concatenation of per-attempt sequences.
C36_AttemptsDoNotInterleave ==
  \A c \in SocketIds :
    LET inbox == sockets[c].inbox IN
      \A i \in 1..(Len(inbox) - 1) :
        /\ inbox[i].type = "status" /\ inbox[i + 1].type = "status"
        /\ MayFollow(inbox[i].status, inbox[i + 1].status)
        /\ inbox[i + 1].status = "pending" => inbox[i].status = "failed"

\* Two failed attempts and a third, successful one, in one stream.
C36_Witness ==
  /\ Len(sockets) >= 1
  /\ Len(sockets[1].inbox) = 12
  /\ \A i \in 1..12 :
       sockets[1].inbox[i].status =
         <<"pending", "routing", "failed",
           "pending", "routing", "building", "failed",
           "pending", "routing", "building", "submitted", "confirmed">>[i]

\* C37: a slot is held from the claim until the pass ends and is released on
\* failure as on success: the step that ends a pass, either way, lowers the
\* number of slots in use by one; only jobs in a pass hold slots, so a waiting
\* job can be claimed whenever fewer than Concurrency jobs are in a pass,
\* however many jobs have failed; and every waiting job is eventually claimed
\* even when attempts fail.
C37_SlotReleasedOnFailure ==
  /\ [][\A j \in JobIds :
          (jobs[j].state = "active" /\ jobs'[j].state # "active") =>
            Cardinality({ i \in JobIds : jobs'[i].state = "active" }) =
              Cardinality({ i \in JobIds : jobs[i].state = "active" }) - 1]_vars
  /\ []((wait # <<>>
          /\ Cardinality({ i \in JobIds : jobs[i].state = "active" }) < Concurrency)
           => ENABLED Claim)
  /\ \A j \in 1..MaxJobs :
       (j \in JobIds /\ jobs[j].state = "waiting")
         ~> (j \in JobIds /\ jobs[j].state = "active")

\* Two jobs have failed on every attempt and the third job, which had to wait
\* for a slot, is running.
C37_Witness ==
  /\ Len(jobs) = MaxJobs
  /\ MaxJobs > Concurrency
  /\ \A j \in 1..Concurrency :
       jobs[j].state = "failed" /\ jobs[j].attemptsMade = attempts
  /\ jobs[MaxJobs].state = "active"
  /\ jobs[MaxJobs].attemptsStarted = 1

====
